---- MODULE Spec2Model ----
(***************************************************************************)
(* Model of the 2D terrain generator: the point graph (Node), the midpoint *)
(* cache (cache_nodes / create_new_node), the displacement rule            *)
(* (random_perpendicular_point), Triangle.subdivide, the FIFO work queue   *)
(* and the expansion / render loops of terrain.main.                       *)
(*                                                                         *)
(* Python objects are values here: a Node is its unique_id (one fresh id   *)
(* per constructed Node), a Triangle is the record of its three nodes.     *)
(* Every function of the source is an operator from the heap before the    *)
(* call to the heap after it, with the value returned and the exception    *)
(* raised, so that a call that raises half-way keeps the mutations it      *)
(* already made.                                                           *)
(*                                                                         *)
(* Floats are fixed-point numbers, Scale units to 1.0, results truncated   *)
(* to the unit; NaN is kept apart (the "nan" field of a coordinate pair).  *)
(***************************************************************************)
EXTENDS Integers, Sequences, FiniteSets, TLC

\* ------------------------------------------------------------------ bounds
\* Largest subdivision depth explored (terrain.main runs depth = 6).
MaxDepth == 2
\* Most Node objects alive in the free call sequences of SpecGraph.
MaxNodes == 3
\* Most items ever appended to the queue in SpecFifo.
MaxAppended == 4
\* Most calls of a call sequence of SpecMesh.
MaxCalls == 3
\* Largest coordinate, in whole units, of the points SpecPoint draws.
MaxCoord == 3

\* Fixed-point resolution: tenths (the roughness literal 0.3) times one
\* halving per subdivision level.
Scale == 10 * (2 ^ MaxDepth)

\* ------------------------------------------------------------- arithmetic
\* Division truncating toward zero, b > 0.
TruncDiv(a, b) == IF a >= 0 THEN a \div b ELSE 0 - ((0 - a) \div b)

RECURSIVE SqrtIter(_, _)
SqrtIter(n, x) ==
    LET y == (x + (n \div x)) \div 2
    IN  IF y >= x THEN x ELSE SqrtIter(n, y)

\* floor(sqrt(n)), n >= 0.
ISqrt(n) == IF n = 0 THEN 0 ELSE SqrtIter(n, n)

Min2(a, b) == IF a <= b THEN a ELSE b
Max2(a, b) == IF a <= b THEN b ELSE a

\* ------------------------------------------------------------ coordinates
\* np.array([x, y]): x, y in fixed-point units; nan: both components are NaN
\* (the only way a NaN arises is the 0/0 of a zero-length segment, which
\* fills the whole vector, and every later operation propagates it);
\* dim: the array's shape is (dim,).
Vec(x, y) == [x |-> x, y |-> y, nan |-> FALSE, dim |-> 2]
NaNVec == [x |-> 0, y |-> 0, nan |-> TRUE, dim |-> 2]
\* The point (x, y) given in whole units.
P(x, y) == Vec(x * Scale, y * Scale)

\* The values random.random() is drawn from, in halves: 0, 1/2, 1.
Draws == {0, 1, 2}

\* The default of the roughtness parameter, 0.3, in tenths.
DefaultRoughness == 3

\* norm / 2.3 rounded up where norm // 2.3 rounds down.
FloorDiv23_up(len2) ==
    IF len2 = 0 THEN 0 ELSE ((10 * ISqrt(len2)) \div (23 * Scale)) + 1

\* norm // 2.3 for norm = sqrt(len2) fixed-point units: the largest k with
\* 2.3 * k * Scale <= norm, decided exactly on the squares.
FloorDiv23(len2) ==
    LET c == (10 * ISqrt(len2)) \div (23 * Scale)
    IN  IF (23 * (c + 1) * Scale) * (23 * (c + 1) * Scale) <= 100 * len2
        THEN c + 1 ELSE c

\* random.uniform(-alpha, alpha) = a + (b - a) * random(), random() = r/2.
Uniform(alpha, r) == (0 - alpha) + TruncDiv(2 * alpha * r, 2)

\* random_perpendicular_point(start, end, roughtness), with r the value
\* random.random() returns.  Gives [ret, err].  Dividing a numpy vector by
\* a zero numpy float raises nothing: it yields NaN components (and a
\* RuntimeWarning), so the except ZeroDivisionError branch is never taken.
random_perpendicular_point(start, end, roughtness, r) ==
    IF start.dim # 2 \/ end.dim # 2
    THEN [ret |-> NaNVec, err |-> "ValueError"]
    ELSE IF start.nan \/ end.nan
    THEN [ret |-> NaNVec, err |-> "none"]
    ELSE
      LET dx == end.x - start.x
          dy == end.y - start.y
          len2 == dx * dx + dy * dy
          norm == ISqrt(len2)
      IN  IF len2 = 0
          THEN \* unit_segment_vector = [nan, nan]; nan * 0.0 + midpoint = nan
               [ret |-> NaNVec, err |-> "none"]
          ELSE
            LET alpha == TruncDiv(FloorDiv23(len2) * roughtness * Scale, 10)
                displacement == Uniform(alpha, r)
                \* normal_vector * displacement, normal = (-dy, dx) / norm
                offx == TruncDiv((0 - dy) * displacement, norm)
                offy == TruncDiv(dx * displacement, norm)
                midx == TruncDiv(start.x + end.x, 2)
                midy == TruncDiv(start.y + end.y, 2)
            IN  [ret |-> Vec(offx + midx, offy + midy), err |-> "none"]

\* ------------------------------------------------------------ the heap
\* What a call reads and writes: every Node's coordinates and connections
\* (by unique_id), the class counter Node._current_id and the cache dict of
\* the cache_nodes wrapper around create_new_node.
VARIABLES coordinates, connections, current_id, cache

Heap ==
    [coordinates |-> coordinates, connections |-> connections,
     current_id |-> current_id, cache |-> cache]

\* A call's outcome: the heap after it, the value returned (0: None), the
\* exception raised ("none": it returned).
Ok(h, v) == [h |-> h, ret |-> v, err |-> "none"]
Raise(h, e) == [h |-> h, ret |-> 0, err |-> e]

\* f with f[k] = v added (a dict store, an attribute of a new object).
Store(f, k, v) == [x \in (DOMAIN f) \cup {k} |-> IF x = k THEN v ELSE f[x]]

EmptyDict == [x \in {} |-> 0]

\* The value of F at e, e evaluated once however often F uses it.
Bind(e, F(_)) == CHOOSE out \in { F(x) : x \in {e} } : TRUE

\* ---------------------------------------------------------------- Node
\* Node._get_unique_id(reset)
get_unique_id(h, reset) ==
    IF reset
    THEN Ok([h EXCEPT !.current_id = 0], 0)
    ELSE Ok([h EXCEPT !.current_id = @ + 1], h.current_id + 1)

\* Node.__init__: Node(x, y) with np.array([x, y]) = v.
Node(h, v) ==
    Bind(get_unique_id(h, FALSE), LAMBDA g :
      Ok([g.h EXCEPT !.coordinates = Store(@, g.ret, v),
                     !.connections = Store(@, g.ret, {})], g.ret))

\* Node.has_connection
has_connection(h, self, other_node) == other_node \in h.connections[self]

\* add_connection that forgets the other node's set.
add_connection_oneway(h, self, other_node) ==
    IF self = other_node THEN Raise(h, "AssertionError") ELSE
    Ok([h EXCEPT !.connections[self] = @ \cup {other_node}], 0)

\* add_connection with its membership test inverted.
add_connection_inverted(h, self, other_node) ==
    IF other_node = self
    THEN Raise(h, "AssertionError")
    ELSE IF other_node \in h.connections[self]
    THEN Ok([h EXCEPT !.connections =
                [@ EXCEPT ![self] = @ \cup {other_node},
                          ![other_node] = @ \cup {self}]], 0)
    ELSE Ok(h, 0)

\* add_connection without its assertion.
add_connection_unasserted(h, self, other_node) ==
    IF other_node \notin h.connections[self]
    THEN Ok([h EXCEPT !.connections =
                [@ EXCEPT ![self] = @ \cup {other_node},
                          ![other_node] = @ \cup {self}]], 0)
    ELSE Ok(h, 0)

\* Node.add_connection
add_connection(h, self, other_node) ==
    IF other_node = self
    THEN Raise(h, "AssertionError")
    ELSE IF other_node \notin h.connections[self]
    THEN Ok([h EXCEPT !.connections =
                [@ EXCEPT ![self] = @ \cup {other_node},
                          ![other_node] = @ \cup {self}]], 0)
    ELSE Ok(h, 0)

\* remove_connection that forgets the other node's set.
remove_connection_oneway(h, self, other_node) ==
    IF other_node \in h.connections[self]
    THEN Ok([h EXCEPT !.connections[self] = @ \ {other_node}], 0)
    ELSE Raise(h, "ValueError")

\* Node.remove_connection; set.remove raises KeyError on a missing element.
remove_connection(h, self, other_node) ==
    IF other_node \in h.connections[self]
    THEN Bind([h EXCEPT !.connections[self] = @ \ {other_node}], LAMBDA h1 :
           IF self \in h1.connections[other_node]
           THEN Ok([h1 EXCEPT !.connections[other_node] = @ \ {self}], 0)
           ELSE Raise(h1, "KeyError"))
    ELSE Raise(h, "ValueError")

\* create_new_node without its has_connection check.
create_new_node_unchecked(h, node_a, node_b, r) ==
    Bind(random_perpendicular_point(h.coordinates[node_a],
                                    h.coordinates[node_b],
                                    DefaultRoughness, r), LAMBDA p :
      IF p.err # "none" THEN Raise(h, "ValueError") ELSE
    Bind(Node(h, p.ret), LAMBDA new_node :
    Bind(add_connection(new_node.h, new_node.ret, node_a), LAMBDA c1 :
      IF c1.err # "none" THEN Raise(c1.h, "ValueError") ELSE
    Bind(add_connection(c1.h, new_node.ret, node_b), LAMBDA c2 :
      IF c2.err # "none" THEN Raise(c2.h, "ValueError") ELSE
    Bind(remove_connection(c2.h, node_a, node_b), LAMBDA rm :
      IF rm.err # "none" THEN Raise(rm.h, "ValueError")
      ELSE Ok(rm.h, new_node.ret))))))

\* create_new_node that leaves the edge between node_a and node_b in place.
create_new_node_keeps_edge(h, node_a, node_b, r) ==
    IF ~has_connection(h, node_a, node_b)
    THEN Raise(h, "ValueError")
    ELSE
      Bind(random_perpendicular_point(h.coordinates[node_a],
                                      h.coordinates[node_b],
                                      DefaultRoughness, r), LAMBDA p :
        IF p.err # "none" THEN Raise(h, "ValueError") ELSE
      Bind(Node(h, p.ret), LAMBDA new_node :
      Bind(add_connection(new_node.h, new_node.ret, node_a), LAMBDA c1 :
        IF c1.err # "none" THEN Raise(c1.h, "ValueError") ELSE
      Bind(add_connection(c1.h, new_node.ret, node_b), LAMBDA c2 :
        IF c2.err # "none" THEN Raise(c2.h, "ValueError")
        ELSE Ok(c2.h, new_node.ret)))))

\* ------------------------------------------------------- midpoint cache
\* create_new_node, the decorated function's body; r is the value of
\* random.random() should the displacement be drawn.  Every exception of
\* the try block is re-raised as ValueError.
create_new_node(h, node_a, node_b, r) ==
    IF ~has_connection(h, node_a, node_b)
    THEN Raise(h, "ValueError")
    ELSE
      Bind(random_perpendicular_point(h.coordinates[node_a],
                                      h.coordinates[node_b],
                                      DefaultRoughness, r), LAMBDA p :
        IF p.err # "none" THEN Raise(h, "ValueError") ELSE
      Bind(Node(h, p.ret), LAMBDA new_node :
      Bind(add_connection(new_node.h, new_node.ret, node_a), LAMBDA c1 :
        IF c1.err # "none" THEN Raise(c1.h, "ValueError") ELSE
      Bind(add_connection(c1.h, new_node.ret, node_b), LAMBDA c2 :
        IF c2.err # "none" THEN Raise(c2.h, "ValueError") ELSE
      Bind(remove_connection(c2.h, node_a, node_b), LAMBDA rm :
        IF rm.err # "none" THEN Raise(rm.h, "ValueError")
        ELSE Ok(rm.h, new_node.ret))))))

\* The key without the sort.
CacheKey_unsorted(node_a, node_b) == <<node_a, node_b>>

\* key = tuple(sorted(unique ids of the arguments))
CacheKey(node_a, node_b) == <<Min2(node_a, node_b), Max2(node_a, node_b)>>

\* wrapper that stores its result under the key but returns on a hit only
\* after calling the function again (a cache that is written, never read).
wrapper_unread(h, node_a, node_b, r) ==
    Bind(create_new_node(h, node_a, node_b, r), LAMBDA result :
      IF result.err # "none" THEN result
      ELSE Ok([result.h EXCEPT !.cache =
                  Store(@, CacheKey(node_a, node_b), result.ret)],
              result.ret))

\* wrapper that mutates the graph on a hit too: it connects the pair again.
wrapper_reconnects(h, node_a, node_b, r) ==
    IF CacheKey(node_a, node_b) \in DOMAIN h.cache
    THEN Ok(add_connection(h, node_a, node_b).h,
            h.cache[CacheKey(node_a, node_b)])
    ELSE Bind(create_new_node(h, node_a, node_b, r), LAMBDA result :
           IF result.err # "none" THEN result
           ELSE Ok([result.h EXCEPT !.cache =
                       Store(@, CacheKey(node_a, node_b), result.ret)],
                   result.ret))

\* cache_nodes.decorator.wrapper: what the name create_new_node is bound to.
wrapper(h, node_a, node_b, r) ==
    IF CacheKey(node_a, node_b) \in DOMAIN h.cache
    THEN Ok(h, h.cache[CacheKey(node_a, node_b)])
    ELSE Bind(create_new_node(h, node_a, node_b, r), LAMBDA result :
           IF result.err # "none" THEN result
           ELSE Ok([result.h EXCEPT !.cache =
                       Store(@, CacheKey(node_a, node_b), result.ret)],
                   result.ret))

\* A Python list object (isinstance(v, list) holds of it and of nothing else).
PyList(s) == [list |-> s]
IsList(v) == "list" \in DOMAIN v

\* ------------------------------------------------------------- Triangle
\* A Triangle object.  level is a history field, not in the source: the
\* number of subdivisions between the seed triangle and this one.
Tri(node_a, node_b, node_c, level) ==
    [node_a |-> node_a, node_b |-> node_b, node_c |-> node_c, level |-> level]

\* Triangle.create_edges
create_edges(h, self) ==
    Bind(add_connection(h, self.node_a, self.node_b), LAMBDA e1 :
      IF e1.err # "none" THEN e1 ELSE
    Bind(add_connection(e1.h, self.node_a, self.node_c), LAMBDA e2 :
      IF e2.err # "none" THEN e2
      ELSE add_connection(e2.h, self.node_b, self.node_c)))

\* Triangle.__init__
Triangle(h, node_a, node_b, node_c, level) ==
    Bind(create_edges(h, Tri(node_a, node_b, node_c, level)), LAMBDA e :
      IF e.err # "none" THEN e
      ELSE Ok(e.h, Tri(node_a, node_b, node_c, level)))

\* subdivide with the midpoints of B-C and A-C taken for each other.
subdivide_swapped(h, self, rd, re, rf) ==
    Bind(wrapper(h, self.node_a, self.node_b, rd), LAMBDA node_d :
      IF node_d.err # "none" THEN node_d ELSE
    Bind(wrapper(node_d.h, self.node_a, self.node_c, re), LAMBDA node_e :
      IF node_e.err # "none" THEN node_e ELSE
    Bind(wrapper(node_e.h, self.node_b, self.node_c, rf), LAMBDA node_f :
      IF node_f.err # "none" THEN node_f ELSE
    Bind(Triangle(node_f.h, node_d.ret, self.node_b, node_e.ret,
                  self.level + 1), LAMBDA triangle_1 :
      IF triangle_1.err # "none" THEN triangle_1 ELSE
    Bind(Triangle(triangle_1.h, self.node_a, node_d.ret, node_f.ret,
                  self.level + 1), LAMBDA triangle_2 :
      IF triangle_2.err # "none" THEN triangle_2 ELSE
    Bind(Triangle(triangle_2.h, node_f.ret, node_e.ret, self.node_c,
                  self.level + 1), LAMBDA triangle_3 :
      IF triangle_3.err # "none" THEN triangle_3 ELSE
    Bind(Triangle(triangle_3.h, node_d.ret, node_e.ret, node_f.ret,
                  self.level + 1), LAMBDA triangle_4 :
      IF triangle_4.err # "none" THEN triangle_4
      ELSE Ok(triangle_4.h, PyList(<<triangle_1.ret, triangle_2.ret,
                                     triangle_3.ret, triangle_4.ret>>)))))))))

\* Triangle.subdivide; rd, re, rf are the values random.random() returns
\* for the three midpoints, where one is drawn.
subdivide(h, self, rd, re, rf) ==
    Bind(wrapper(h, self.node_a, self.node_b, rd), LAMBDA node_d :
      IF node_d.err # "none" THEN node_d ELSE
    Bind(wrapper(node_d.h, self.node_b, self.node_c, re), LAMBDA node_e :
      IF node_e.err # "none" THEN node_e ELSE
    Bind(wrapper(node_e.h, self.node_a, self.node_c, rf), LAMBDA node_f :
      IF node_f.err # "none" THEN node_f ELSE
    Bind(Triangle(node_f.h, node_d.ret, self.node_b, node_e.ret,
                  self.level + 1), LAMBDA triangle_1 :
      IF triangle_1.err # "none" THEN triangle_1 ELSE
    Bind(Triangle(triangle_1.h, self.node_a, node_d.ret, node_f.ret,
                  self.level + 1), LAMBDA triangle_2 :
      IF triangle_2.err # "none" THEN triangle_2 ELSE
    Bind(Triangle(triangle_2.h, node_f.ret, node_e.ret, self.node_c,
                  self.level + 1), LAMBDA triangle_3 :
      IF triangle_3.err # "none" THEN triangle_3 ELSE
    Bind(Triangle(triangle_3.h, node_d.ret, node_e.ret, node_f.ret,
                  self.level + 1), LAMBDA triangle_4 :
      IF triangle_4.err # "none" THEN triangle_4
      ELSE Ok(triangle_4.h, PyList(<<triangle_1.ret, triangle_2.ret,
                                     triangle_3.ret, triangle_4.ret>>)))))))))

\* ----------------------------------------------------------------- FIFO
\* size that leaves the last element out.
size_short(items) == IF Len(items) = 0 THEN 0 ELSE Len(items) - 1

\* FIFO.is_empty, FIFO.size on the deque self.items
is_empty(items) == Len(items) = 0
size(items) == Len(items)

\* enqueue that extends a copy of the list: a list item is lost.
enqueue_discards_list(items, item, is_list) ==
    IF is_list /\ IsList(item)
    THEN items
    ELSE Append(items, item)

\* FIFO.enqueue: gives the deque after the call.
enqueue(items, item, is_list) ==
    IF is_list /\ IsList(item)
    THEN items \o item.list
    ELSE Append(items, item)

\* dequeue that pops at the back (deque.pop for deque.popleft).
dequeue_back(items) ==
    IF Len(items) = 0
    THEN [items |-> items, ret |-> 0, err |-> "IndexError"]
    ELSE [items |-> SubSeq(items, 1, Len(items) - 1),
          ret |-> items[Len(items)], err |-> "none"]

\* FIFO.dequeue: gives [items, ret, err].
dequeue(items) ==
    IF is_empty(items)
    THEN [items |-> items, ret |-> 0, err |-> "IndexError"]
    ELSE [items |-> Tail(items), ret |-> Head(items), err |-> "none"]

\* --------------------------------------------------------- terrain.main
\* main's locals and position.
VARIABLES
    items,            \* queue.items, the deque of the FIFO
    depth,            \* depth
    iter,             \* iterations of the expansion loop completed
    current_triangle, \* current_triangle
    triangles,        \* triangles, the list subdivide returned
    done,             \* done
    n,                \* queue.size() as range() captured it for this frame
    k,                \* iterations of the drawing loop completed this frame
    pc,               \* "expand", "poll", "draw", "exit" or "raised"
    err,              \* the exception that ended main ("none": none did)
    \* history, not in the source:
    drawn,            \* the triangles handed to draw this frame, in order
    lastDrawn,        \* the same for the frame before (<<>>: there was none)
    atStart           \* queue.items when this frame began

\* The call record of the free call sequences (SpecGraph, SpecFifo,
\* SpecPoint): the last call made, its arguments and its outcome, and the
\* queue's history.
VARIABLES call, appended, removed

\* The number of calls made so far by the bounded call sequences (SpecMesh).
VARIABLES calls

heapVars == <<coordinates, connections, current_id, cache>>
mainVars == <<items, depth, iter, current_triangle, triangles, done, n, k,
              pc, err, drawn, lastDrawn, atStart>>
vars == <<coordinates, connections, current_id, cache,
          items, depth, iter, current_triangle, triangles, done, n, k,
          pc, err, drawn, lastDrawn, atStart, call, appended, removed, calls>>

\* None, and the call record before any call.
None == [none |-> TRUE]
NoCall == [op |-> "none", args |-> <<>>, ret |-> 0, err |-> "none",
           hit |-> FALSE]

EmptyHeap ==
    [coordinates |-> <<>>, connections |-> <<>>, current_id |-> 0,
     cache |-> EmptyDict]

SetHeap(h) ==
    /\ coordinates' = h.coordinates
    /\ connections' = h.connections
    /\ current_id' = h.current_id
    /\ cache' = h.cache

\* The seed triangles explored, as (A, B, C): the example of the
\* specification, a small triangle whose edges are all too short to be
\* displaced, a right triangle, and one with two coincident vertices.
Seeds ==
    { <<P(0, 0), P(4, 0), P(2, 4)>>,
      <<P(0, 0), P(2, 0), P(1, 2)>>,
      <<P(0, 0), P(3, 0), P(0, 3)>>,
      <<P(1, 1), P(1, 1), P(4, 1)>> }

\* A = Node(..); B = Node(..); C = Node(..); root_triangle = Triangle(A, B, C)
SeedHeap(seed) ==
    Bind(Node(EmptyHeap, seed[1]), LAMBDA A :
    Bind(Node(A.h, seed[2]), LAMBDA B :
    Bind(Node(B.h, seed[3]), LAMBDA C :
      Triangle(C.h, A.ret, B.ret, C.ret, 0))))

\* One iteration per level instead of one per triangle to subdivide.
Iterations_per_level(d) == d

\* The count without the division by 3.
Iterations_undivided(d) == (4 ^ d) - 1

\* range((4 ** depth - 1) // 3)
Iterations(d) == ((4 ^ d) - 1) \div 3

\* main up to the expansion loop: the seed triangle is built and enqueued.
Init ==
    \E seed \in Seeds, d \in 0..MaxDepth :
        \E root \in {SeedHeap(seed)} :
            /\ coordinates = root.h.coordinates
            /\ connections = root.h.connections
            /\ current_id = root.h.current_id
            /\ cache = root.h.cache
            /\ items = enqueue(<<>>, root.ret, FALSE)
            /\ depth = d
            /\ iter = 0
            /\ current_triangle = None
            /\ triangles = None
            /\ done = FALSE
            /\ n = 0
            /\ k = 0
            /\ pc = "expand"
            /\ err = "none"
            /\ drawn = <<>>
            /\ lastDrawn = <<>>
            /\ atStart = <<>>
            /\ call = NoCall
            /\ appended = <<>>
            /\ removed = <<>>
            /\ calls = 0

\* One iteration of the expansion loop: dequeue, subdivide, enqueue the list.
Expand ==
    /\ pc = "expand"
    /\ iter < Iterations(depth)
    /\ \E rd \in Draws, re \in Draws, rf \in Draws :
        \E dq \in {dequeue(items)} :
            IF dq.err # "none"
            THEN /\ pc' = "raised"
                 /\ err' = dq.err
                 /\ UNCHANGED <<heapVars, items, iter, current_triangle,
                                triangles>>
            ELSE \E sub \in {subdivide(Heap, dq.ret, rd, re, rf)} :
                 IF sub.err # "none"
                 THEN /\ pc' = "raised"
                      /\ err' = sub.err
                      /\ SetHeap(sub.h)
                      /\ items' = dq.items
                      /\ current_triangle' = dq.ret
                      /\ UNCHANGED <<iter, triangles>>
                 ELSE /\ SetHeap(sub.h)
                      /\ items' = enqueue(dq.items, sub.ret, TRUE)
                      /\ current_triangle' = dq.ret
                      /\ triangles' = sub.ret
                      /\ iter' = iter + 1
                      /\ UNCHANGED <<pc, err>>
    /\ UNCHANGED <<depth, done, n, k, drawn, lastDrawn, atStart,
                   call, appended, removed, calls>>

\* The expansion loop is exhausted: done = False; clock = ...
StartRender ==
    /\ pc = "expand"
    /\ iter = Iterations(depth)
    /\ done' = FALSE
    /\ pc' = "poll"
    /\ UNCHANGED <<heapVars, items, depth, iter, current_triangle, triangles,
                   n, k, err, drawn, lastDrawn, atStart,
                   call, appended, removed, calls>>

\* A frame that leaves the loop as soon as it reads the QUIT event (a break
\* in the event loop) instead of finishing its drawing pass.
BeginFrame_breaks ==
    /\ pc = "poll"
    /\ ~done
    /\ \E quit \in BOOLEAN :
        /\ done' = quit
        /\ IF quit
           THEN UNCHANGED <<n, k, drawn, atStart, pc>>
           ELSE /\ n' = size(items)
                /\ k' = 0
                /\ drawn' = <<>>
                /\ atStart' = items
                /\ pc' = "draw"
    /\ UNCHANGED <<heapVars, items, depth, iter, current_triangle, triangles,
                   err, lastDrawn, call, appended, removed, calls>>

\* while not done: the events are read (quit: a QUIT event is among them),
\* the screen is cleared and range(queue.size()) is evaluated.
BeginFrame ==
    /\ pc = "poll"
    /\ ~done
    /\ \E quit \in BOOLEAN : done' = quit
    /\ n' = size(items)
    /\ k' = 0
    /\ drawn' = <<>>
    /\ atStart' = items
    /\ pc' = "draw"
    /\ UNCHANGED <<heapVars, items, depth, iter, current_triangle, triangles,
                   err, lastDrawn, call, appended, removed, calls>>

\* One iteration of the drawing loop: dequeue, draw, enqueue.
DrawTriangle ==
    /\ pc = "draw"
    /\ k < n
    /\ \E dq \in {dequeue(items)} :
           IF dq.err # "none"
           THEN /\ pc' = "raised"
                /\ err' = dq.err
                /\ UNCHANGED <<items, current_triangle, drawn, k>>
           ELSE /\ current_triangle' = dq.ret
                /\ drawn' = Append(drawn, dq.ret)
                /\ items' = enqueue(dq.items, dq.ret, FALSE)
                /\ k' = k + 1
                /\ UNCHANGED <<pc, err>>
    /\ UNCHANGED <<heapVars, depth, iter, triangles, done, n, lastDrawn,
                   atStart, call, appended, removed, calls>>

\* The drawing loop is exhausted: display.flip(); clock.tick(10)
EndFrame ==
    /\ pc = "draw"
    /\ k = n
    /\ lastDrawn' = drawn
    /\ pc' = "poll"
    /\ UNCHANGED <<heapVars, items, depth, iter, current_triangle, triangles,
                   done, n, k, err, drawn, atStart, call, appended, removed, calls>>

\* while not done is left: pygame.quit()
Quit ==
    /\ pc = "poll"
    /\ done
    /\ pc' = "exit"
    /\ UNCHANGED <<heapVars, items, depth, iter, current_triangle, triangles,
                   done, n, k, err, drawn, lastDrawn, atStart,
                   call, appended, removed, calls>>

Next ==
    \/ Expand
    \/ StartRender
    \/ BeginFrame
    \/ DrawTriangle
    \/ EndFrame
    \/ Quit

Spec == Init /\ [][Next]_vars

\* main with its render loop running on: a frame that can draw its next
\* triangle, end, or leave the loop eventually does.  Nothing is assumed
\* about the progress of the expansion loop.
SpecLive ==
    Spec /\ WF_vars(DrawTriangle) /\ WF_vars(EndFrame) /\ WF_vars(Quit)

\* ------------------------------------------- free calls on the point graph
\* Any sequence of calls of Node(..), add_connection, remove_connection,
\* Triangle(..) and create_new_node on at most MaxNodes nodes, starting
\* with no Node constructed and an empty cache.  call records the call just
\* made: hit tells a create_new_node call that found its key in the cache.
MainIdle ==
    /\ items = <<>>
    /\ depth = 0
    /\ iter = 0
    /\ current_triangle = None
    /\ triangles = None
    /\ done = FALSE
    /\ n = 0
    /\ k = 0
    /\ pc = "calls"
    /\ err = "none"
    /\ drawn = <<>>
    /\ lastDrawn = <<>>
    /\ atStart = <<>>

\* The coordinates a caller gives the i-th Node it constructs.
NodeCoords(i) ==
    IF i = 1 THEN P(0, 0)
    ELSE IF i = 2 THEN P(2, 0)
    ELSE IF i = 3 THEN P(1, 2)
    ELSE P(i, i)

Nodes == 1..current_id

Called(op, args, res, hit) ==
    [op |-> op, args |-> args, ret |-> res.ret, err |-> res.err, hit |-> hit]

InitGraph ==
    /\ coordinates = EmptyHeap.coordinates
    /\ connections = EmptyHeap.connections
    /\ current_id = EmptyHeap.current_id
    /\ cache = EmptyHeap.cache
    /\ MainIdle
    /\ call = NoCall
    /\ appended = <<>>
    /\ removed = <<>>
    /\ calls = 0

CallNode ==
    /\ current_id < MaxNodes
    /\ \E res \in {Node(Heap, NodeCoords(current_id + 1))} :
        /\ SetHeap(res.h)
        /\ call' = Called("Node", <<>>, res, FALSE)
    /\ UNCHANGED <<mainVars, appended, removed, calls>>

CallAddConnection ==
    /\ \E a \in Nodes, b \in Nodes :
        \E res \in {add_connection(Heap, a, b)} :
            /\ SetHeap(res.h)
            /\ call' = Called("add_connection", <<a, b>>, res, FALSE)
    /\ UNCHANGED <<mainVars, appended, removed, calls>>

CallRemoveConnection ==
    /\ \E a \in Nodes, b \in Nodes :
        \E res \in {remove_connection(Heap, a, b)} :
            /\ SetHeap(res.h)
            /\ call' = Called("remove_connection", <<a, b>>, res, FALSE)
    /\ UNCHANGED <<mainVars, appended, removed, calls>>

CallTriangle ==
    /\ \E a \in Nodes, b \in Nodes, c \in Nodes :
        \E res \in {Triangle(Heap, a, b, c, 0)} :
            /\ SetHeap(res.h)
            /\ call' = Called("Triangle", <<a, b, c>>, res, FALSE)
    /\ UNCHANGED <<mainVars, appended, removed, calls>>

CallCreateNewNode ==
    /\ \E a \in Nodes, b \in Nodes, r \in Draws :
        \E res \in {wrapper(Heap, a, b, r)} :
            /\ res.h.current_id <= MaxNodes
            /\ SetHeap(res.h)
            /\ call' = Called("create_new_node", <<a, b>>, res,
                              CacheKey(a, b) \in DOMAIN cache)
    /\ UNCHANGED <<mainVars, appended, removed, calls>>

NextGraph ==
    \/ CallNode
    \/ CallAddConnection
    \/ CallRemoveConnection
    \/ CallTriangle
    \/ CallCreateNewNode

SpecGraph == InitGraph /\ [][NextGraph]_vars

\* ------------------------------------------------ free calls on the queue
\* Any sequence of enqueue and dequeue calls on one FIFO.  appended is the
\* history of what the callers asked to append, one entry per element;
\* removed is the history of what dequeue returned.
x1 == Tri(1, 2, 3, 0)
x2 == Tri(4, 2, 5, 1)
x3 == Tri(1, 4, 6, 1)

\* What callers enqueue: single items, and lists of them.
QueueItems == {x1, x2, x3, PyList(<<x1, x2, x3>>), PyList(<<>>)}

\* The elements a call enqueue(item, is_list) is to append, in order.
Elements(item, is_list) == IF is_list /\ IsList(item) THEN item.list ELSE <<item>>

InitFifo ==
    /\ coordinates = EmptyHeap.coordinates
    /\ connections = EmptyHeap.connections
    /\ current_id = EmptyHeap.current_id
    /\ cache = EmptyHeap.cache
    /\ MainIdle
    /\ call = NoCall
    /\ appended = <<>>
    /\ removed = <<>>
    /\ calls = 0

CallEnqueue ==
    /\ \E item \in QueueItems, is_list \in BOOLEAN :
        /\ Len(appended) + Len(Elements(item, is_list)) <= MaxAppended
        /\ items' = enqueue(items, item, is_list)
        /\ appended' = appended \o Elements(item, is_list)
        /\ call' = [op |-> "enqueue", args |-> <<item, is_list>>, ret |-> 0,
                    err |-> "none", hit |-> FALSE]
    /\ UNCHANGED <<heapVars, depth, iter, current_triangle, triangles, done,
                   n, k, pc, err, drawn, lastDrawn, atStart, removed, calls>>

CallDequeue ==
    /\ \E dq \in {dequeue(items)} :
        /\ items' = dq.items
        /\ removed' = IF dq.err = "none" THEN Append(removed, dq.ret)
                      ELSE removed
        /\ call' = [op |-> "dequeue", args |-> <<>>, ret |-> dq.ret,
                    err |-> dq.err, hit |-> FALSE]
    /\ UNCHANGED <<heapVars, depth, iter, current_triangle, triangles, done,
                   n, k, pc, err, drawn, lastDrawn, atStart, appended, calls>>

NextFifo ==
    \/ CallEnqueue
    \/ CallDequeue

SpecFifo == InitFifo /\ [][NextFifo]_vars

\* ------------------------------------- calls of random_perpendicular_point
\* One call of random_perpendicular_point on arguments drawn from the grid
\* points up to MaxCoord, the roughness values 0, 0.3 and 1.0 and every
\* value of the random draw.
GridPoints == { P(x, y) : x \in 0..MaxCoord, y \in 0..MaxCoord }
Roughnesses == {0, 3, 10}

InitPoint ==
    /\ coordinates = EmptyHeap.coordinates
    /\ connections = EmptyHeap.connections
    /\ current_id = EmptyHeap.current_id
    /\ cache = EmptyHeap.cache
    /\ MainIdle
    /\ \E start \in GridPoints, end \in GridPoints,
          roughtness \in Roughnesses, r \in Draws :
        call = [op |-> "none", args |-> <<start, end, roughtness, r>>,
                ret |-> 0, err |-> "none", hit |-> FALSE]
    /\ appended = <<>>
    /\ removed = <<>>
    /\ calls = 0

CallRandomPerpendicularPoint ==
    /\ call.op = "none"
    /\ \E res \in {random_perpendicular_point(call.args[1], call.args[2],
                                              call.args[3], call.args[4])} :
        call' = [op |-> "random_perpendicular_point", args |-> call.args,
                 ret |-> res.ret, err |-> res.err, hit |-> FALSE]
    /\ UNCHANGED <<heapVars, mainVars, appended, removed, calls>>

NextPoint == CallRandomPerpendicularPoint

SpecPoint == InitPoint /\ [][NextPoint]_vars

\* ------------------------------------------- bounded calls on the mesh
\* Any sequence of at most MaxCalls calls of add_connection,
\* remove_connection, Triangle, create_new_node and Triangle.subdivide by a
\* caller that built three nodes and keeps the triangle it constructed last
\* (current_triangle) and the list subdivide returned last (triangles).
\* err is the exception of the last call.
ThreeNodes ==
    Bind(Node(EmptyHeap, NodeCoords(1)), LAMBDA A :
    Bind(Node(A.h, NodeCoords(2)), LAMBDA B :
      Node(B.h, NodeCoords(3)).h))

HeldTriangles ==
    (IF current_triangle = None THEN {} ELSE {current_triangle})
        \cup (IF triangles = None THEN {}
              ELSE {triangles.list[i] : i \in 1..Len(triangles.list)})

meshIdleVars == <<items, depth, iter, done, n, k, pc, drawn, lastDrawn,
                  atStart, call, appended, removed>>

InitMesh ==
    /\ coordinates = ThreeNodes.coordinates
    /\ connections = ThreeNodes.connections
    /\ current_id = ThreeNodes.current_id
    /\ cache = ThreeNodes.cache
    /\ MainIdle
    /\ call = NoCall
    /\ appended = <<>>
    /\ removed = <<>>
    /\ calls = 0

MeshAddConnection ==
    /\ calls < MaxCalls
    /\ \E a \in Nodes, b \in Nodes :
        \E res \in {add_connection(Heap, a, b)} :
            /\ SetHeap(res.h)
            /\ err' = res.err
    /\ calls' = calls + 1
    /\ UNCHANGED <<meshIdleVars, current_triangle, triangles>>

MeshRemoveConnection ==
    /\ calls < MaxCalls
    /\ \E a \in Nodes, b \in Nodes :
        \E res \in {remove_connection(Heap, a, b)} :
            /\ SetHeap(res.h)
            /\ err' = res.err
    /\ calls' = calls + 1
    /\ UNCHANGED <<meshIdleVars, current_triangle, triangles>>

MeshTriangle ==
    /\ calls < MaxCalls
    /\ \E a \in Nodes, b \in Nodes, c \in Nodes :
        \E res \in {Triangle(Heap, a, b, c, 0)} :
            /\ SetHeap(res.h)
            /\ err' = res.err
            /\ current_triangle' = IF res.err = "none" THEN res.ret
                                   ELSE current_triangle
    /\ calls' = calls + 1
    /\ UNCHANGED <<meshIdleVars, triangles>>

MeshCreateNewNode ==
    /\ calls < MaxCalls
    /\ \E a \in Nodes, b \in Nodes, r \in Draws :
        \E res \in {wrapper(Heap, a, b, r)} :
            /\ SetHeap(res.h)
            /\ err' = res.err
    /\ calls' = calls + 1
    /\ UNCHANGED <<meshIdleVars, current_triangle, triangles>>

MeshSubdivide ==
    /\ calls < MaxCalls
    /\ \E self \in HeldTriangles, rd \in Draws, re \in Draws, rf \in Draws :
        \E res \in {subdivide(Heap, self, rd, re, rf)} :
            /\ SetHeap(res.h)
            /\ err' = res.err
            /\ triangles' = IF res.err = "none" THEN res.ret ELSE triangles
    /\ calls' = calls + 1
    /\ UNCHANGED <<meshIdleVars, current_triangle>>

NextMesh ==
    \/ MeshAddConnection
    \/ MeshRemoveConnection
    \/ MeshTriangle
    \/ MeshCreateNewNode
    \/ MeshSubdivide

SpecMesh == InitMesh /\ [][NextMesh]_vars

\* ------------------------------------------------------------- properties
Adjacent(a, b) == b \in connections[a] /\ a \in connections[b]
NotAdjacent(a, b) == b \notin connections[a] /\ a \notin connections[b]

\* The state right after an iteration of the expansion loop: current_triangle
\* is the triangle subdivided, triangles what subdivide returned.
AfterSubdivide == pc = "expand" /\ iter > 0

\* The expansion loop has completed.
Expanded == pc \in {"poll", "draw", "exit"}

\* C1.  Two successive create_new_node calls on the same unordered pair,
\* the first a cache miss that succeeded (the pair was connected, with no
\* entry yet), the second in either argument order: the second returns the
\* point the first returned, although the edge between the pair is gone;
\* and the cache holds one entry per unordered pair (its keys are sorted).
C1_SameMidpoint ==
    [][ /\ ( /\ call.op = "create_new_node"
             /\ call.err = "none"
             /\ ~call.hit
             /\ call'.op = "create_new_node"
             /\ {call'.args[1], call'.args[2]} = {call.args[1], call.args[2]} )
           => /\ call'.err = "none"
              /\ call'.ret = call.ret
              /\ call.args[2] \notin connections[call.args[1]]
              /\ UNCHANGED heapVars
        /\ \A key \in DOMAIN cache' : key[1] < key[2]
      ]_vars

\* The second call, with the arguments the other way round, returned the
\* cached midpoint of a pair that is no longer adjacent.
C1_Witness ==
    /\ call.op = "create_new_node"
    /\ call.hit
    /\ call.err = "none"
    /\ call.args = <<2, 1>>
    /\ call.ret = 3
    /\ cache[<<1, 2>>] = 3
    /\ NotAdjacent(1, 2)

\* C2.  subdivide on (A, B, C) returns the list of exactly four triangles
\* (D, B, E), (A, D, F), (F, E, C), (D, E, F), in this order, D, E, F being
\* the cached midpoints of A-B, B-C, A-C; their vertices are A, .., F.
C2_FourChildren ==
    AfterSubdivide =>
        LET A == current_triangle.node_a
            B == current_triangle.node_b
            C == current_triangle.node_c
            l == current_triangle.level + 1
        IN  /\ {CacheKey(A, B), CacheKey(B, C), CacheKey(A, C)} \subseteq DOMAIN cache
            /\ LET D == cache[CacheKey(A, B)]
                   E == cache[CacheKey(B, C)]
                   F == cache[CacheKey(A, C)]
               IN  /\ IsList(triangles)
                   /\ Len(triangles.list) = 4
                   /\ triangles.list = << Tri(D, B, E, l), Tri(A, D, F, l),
                                          Tri(F, E, C, l), Tri(D, E, F, l) >>
                   /\ UNION { {t.node_a, t.node_b, t.node_c} :
                              t \in { triangles.list[i] : i \in 1..4 } }
                        = {A, B, C, D, E, F}

\* The medial triangle of the seed has been subdivided: its three midpoints
\* were all created before, by the corner triangles sharing its edges.
C2_Witness ==
    /\ AfterSubdivide
    /\ iter = 5
    /\ current_triangle = Tri(4, 5, 6, 1)
    /\ Len(triangles.list) = 4
    /\ current_id = 15

\* C3.  After subdivide(T) returns in the expansion, T = (A, B, C): no two of
\* A, B, C are adjacent, each of A-B, B-C, A-C is replaced by its two
\* half-edges through its midpoint, and the medial edges D-E, D-F, E-F exist.
C3_EdgesReplaced ==
    AfterSubdivide =>
        LET A == current_triangle.node_a
            B == current_triangle.node_b
            C == current_triangle.node_c
        IN  /\ {CacheKey(A, B), CacheKey(B, C), CacheKey(A, C)} \subseteq DOMAIN cache
            /\ LET D == cache[CacheKey(A, B)]
                   E == cache[CacheKey(B, C)]
                   F == cache[CacheKey(A, C)]
               IN  /\ NotAdjacent(A, B) /\ NotAdjacent(B, C) /\ NotAdjacent(A, C)
                   /\ Adjacent(A, D) /\ Adjacent(D, B)
                   /\ Adjacent(B, E) /\ Adjacent(E, C)
                   /\ Adjacent(A, F) /\ Adjacent(F, C)
                   /\ Adjacent(D, E) /\ Adjacent(D, F) /\ Adjacent(E, F)

\* subdivide has returned for the medial triangle of the seed, whose three
\* edges each had been subdivided by a neighbour.
C3_Witness ==
    /\ AfterSubdivide
    /\ current_triangle = Tri(4, 5, 6, 1)
    /\ {<<4, 5>>, <<5, 6>>, <<4, 6>>} \subseteq DOMAIN cache
    /\ NotAdjacent(4, 5)
    /\ Adjacent(4, cache[<<4, 5>>])

\* C4.  When the expansion loop has completed it has run (4^depth - 1)/3
\* iterations and the queue holds exactly 4^depth triangles, every one of
\* level depth.
C4_Leaves ==
    Expanded =>
        /\ iter = ((4 ^ depth) - 1) \div 3
        /\ Len(items) = 4 ^ depth
        /\ \A i \in 1..Len(items) : items[i].level = depth

C4_Witness ==
    /\ pc = "poll"
    /\ depth = MaxDepth
    /\ iter > 1
    /\ Len(items) = 4 ^ MaxDepth

\* The points reachable from those of S through adjacency, S \subseteq seen.
RECURSIVE Reach(_, _)
Reach(seen, S) ==
    LET T == (UNION { connections[x] : x \in S }) \ seen
    IN  IF T = {} THEN seen ELSE Reach(seen \cup T, T)

\* C5.  When the expansion loop has completed, every point of the mesh is
\* reachable from every other through adjacency.
C5_Connected ==
    pc = "poll" =>
        \A x \in 1..current_id : Reach({x}, {x}) = 1..current_id

C5_Witness ==
    /\ pc = "poll"
    /\ depth = MaxDepth
    /\ current_id > 6
    /\ Reach({current_id}, {current_id}) = 1..current_id

\* C6.  A frame runs size() iterations, size() read once when it begins; in
\* it the triangles are handed to draw one by one in queue order, and when
\* it ends the queue is as it was when the frame began, every triangle has
\* been drawn once, in the order of the frame before.
C6_FrameRotation ==
    pc = "draw" =>
        /\ n = Len(atStart)
        /\ k <= n
        /\ drawn = SubSeq(atStart, 1, k)
        /\ items = SubSeq(atStart, k + 1, n) \o SubSeq(atStart, 1, k)
        /\ k = n => /\ items = atStart
                    /\ drawn = atStart
                    /\ lastDrawn # <<>> => drawn = lastDrawn

\* The end of a frame that is not the first, 4^MaxDepth triangles drawn.
C6_Witness ==
    /\ pc = "draw"
    /\ k = n
    /\ n = 4 ^ MaxDepth
    /\ Len(lastDrawn) = n
    /\ Len(drawn) = n

\* C7.  The queue is first-in first-out: what dequeue has returned, followed
\* by what the queue holds, is what was appended, in the order appended (the
\* elements of a list enqueued with is_list kept in their order).
C7_FifoOrder == removed \o items = appended

\* [x1, x2, x3] appended, then three dequeues: x1, x2, x3.
C7_Witness ==
    /\ appended = <<x1, x2, x3>>
    /\ removed = <<x1, x2, x3>>
    /\ items = <<>>
    /\ call.op = "dequeue"
    /\ call.ret = x3

\* C8.  add_connection(a, a) raises AssertionError and changes no adjacency
\* set; on two distinct adjacent nodes it returns and changes none; on two
\* distinct nodes that are not adjacent it adds each to the other's set.
C8_Connect ==
    [][ call'.op = "add_connection" =>
          LET a == call'.args[1]
              b == call'.args[2]
          IN  IF a = b
              THEN call'.err = "AssertionError" /\ connections' = connections
              ELSE IF b \in connections[a]
              THEN call'.err = "none" /\ connections' = connections
              ELSE /\ call'.err = "none"
                   /\ connections' = [connections EXCEPT
                                        ![a] = @ \cup {b}, ![b] = @ \cup {a}]
      ]_vars

\* A node was connected to itself, in a graph that has an edge: the call raised.
C8_Witness ==
    /\ call.op = "add_connection"
    /\ call.args = <<1, 1>>
    /\ call.err = "AssertionError"
    /\ Adjacent(1, 2)

\* C9.  random_perpendicular_point raises ZeroDivisionError (the
\* DegenerateSegmentError) whenever start = end, instead of returning.
C9_DegenerateRaises ==
    ( /\ call.op = "random_perpendicular_point"
      /\ call.args[1] = call.args[2] )
    => call.err = "ZeroDivisionError"

\* C10.  Seed A(0,0), B(4,0), C(2,4), depth 1: the expansion leaves the four
\* triangles (D,B,E), (A,D,F), (F,E,C), (D,E,F) with D = (2,0), E = (3,2),
\* F = (1,2) exactly, and A-B, B-C, A-C no longer adjacent.
C10_EndToEnd ==
    ( /\ Expanded
      /\ depth = 1
      /\ coordinates[1] = P(0, 0)
      /\ coordinates[2] = P(4, 0)
      /\ coordinates[3] = P(2, 4) )
    => /\ items = << Tri(4, 2, 5, 1), Tri(1, 4, 6, 1),
                     Tri(6, 5, 3, 1), Tri(4, 5, 6, 1) >>
       /\ coordinates[4] = P(2, 0)
       /\ coordinates[5] = P(3, 2)
       /\ coordinates[6] = P(1, 2)
       /\ NotAdjacent(1, 2) /\ NotAdjacent(2, 3) /\ NotAdjacent(1, 3)

\* The pair {a, b} has an entry in the cache.
Cached(a, b) == <<a, b>> \in DOMAIN cache \/ <<b, a>> \in DOMAIN cache

C12_NoDisplacement ==
    ( /\ call.op = "random_perpendicular_point"
      /\ call.args[1] # call.args[2]
      /\ LET dx == call.args[2].x - call.args[1].x
             dy == call.args[2].y - call.args[1].y
         IN  \/ call.args[3] = 0
             \/ 100 * (dx * dx + dy * dy) < 529 * Scale * Scale )
    => /\ call.err = "none"
       /\ 2 * call.ret.x = call.args[1].x + call.args[2].x
       /\ 2 * call.ret.y = call.args[1].y + call.args[2].y
       /\ ~call.ret.nan

\* Roughness 0 on a segment of length 3 (norm // 2.3 = 1), draw 0: the midpoint.
C12_Witness ==
    /\ call.op = "random_perpendicular_point"
    /\ call.args = <<P(0, 0), P(3, 0), 0, 0>>
    /\ call.ret = Vec((3 * Scale) \div 2, 0)

C15_Disconnect ==
    [][ call'.op = "remove_connection" =>
          LET a == call'.args[1]
              b == call'.args[2]
          IN  IF b \in connections[a]
              THEN /\ call'.err = "none"
                   /\ connections' = [connections EXCEPT
                                        ![a] = @ \ {b}, ![b] = @ \ {a}]
              ELSE /\ call'.err = "ValueError"
                   /\ connections' = connections
      ]_vars

\* The edge 1-2 was removed while node 3 kept its edges.
C15_Witness ==
    /\ call.op = "remove_connection"
    /\ call.args = <<1, 2>>
    /\ call.err = "none"
    /\ NotAdjacent(1, 2)
    /\ Adjacent(1, 3)
    /\ Adjacent(2, 3)

\* The three vertex pairs of a triangle.
Pairs(t) == {<<t.node_a, t.node_b>>, <<t.node_b, t.node_c>>,
             <<t.node_a, t.node_c>>}

\* C16.  Neither the expansion loop nor a frame dequeues from an empty queue:
\* the queue is non-empty whenever a dequeue is about to run, and IndexError
\* (the EmptyQueueError) is never raised, for every depth.
C16_NoEmptyDequeue ==
    /\ err # "IndexError"
    /\ (pc = "expand" /\ iter < ((4 ^ depth) - 1) \div 3) => Len(items) > 0
    /\ (pc = "draw" /\ k < n) => Len(items) > 0

\* A run at the largest depth that expanded, drew a frame and left the loop.
C16_Witness ==
    /\ pc = "exit"
    /\ depth = MaxDepth
    /\ err = "none"
    /\ Len(lastDrawn) = 4 ^ MaxDepth
    /\ Len(items) = 4 ^ MaxDepth

\* C18.  During and after the expansion no pair of nodes with a cache entry
\* is adjacent: the edge removed when the midpoint was created is never
\* established again.
C18_ConsumedEdgesStayRemoved ==
    \A key \in DOMAIN cache : NotAdjacent(key[1], key[2])

\* All twelve edges of depth 2 are consumed and the queue holds triangles
\* of both levels.
C18_Witness ==
    /\ pc = "expand"
    /\ Cardinality(DOMAIN cache) > 9
    /\ \E i \in 1..Len(items) : items[i].level = 1
    /\ \E i \in 1..Len(items) : items[i].level = 2
    /\ \A key \in DOMAIN cache : NotAdjacent(key[1], key[2])

\* C19.  During the expansion every vertex pair of every queued triangle is
\* adjacent or has a cache entry, and no subdivide raises ValueError (the
\* DisconnectedEdgeError), for every depth.
C19_EdgesAvailable ==
    /\ err # "ValueError"
    /\ pc = "expand" =>
         \A i \in 1..Len(items) : \A pr \in Pairs(items[i]) :
             Adjacent(pr[1], pr[2]) \/ Cached(pr[1], pr[2])

\* The triangle dequeued last had no adjacent vertex pair left: its three
\* midpoints came from the cache and subdivide returned its four children.
C19_Witness ==
    /\ pc = "expand"
    /\ err = "none"
    /\ iter > 2
    /\ current_triangle.level = 1
    /\ Len(triangles.list) = 4
    /\ \A pr \in Pairs(current_triangle) :
           NotAdjacent(pr[1], pr[2]) /\ Cached(pr[1], pr[2])

\* C20.  Every node beyond the three seeds is the midpoint of exactly one
\* unordered pair, no subdivide fails to obtain its midpoints, and after the
\* expansion to depth d there are (2^d + 1)(2^d + 2)/2 nodes.
C20_PointCount ==
    /\ pc # "raised"
    /\ current_id = 3 + Cardinality(DOMAIN cache)
    /\ \A k1, k2 \in DOMAIN cache :
           (cache[k1] = cache[k2] \/ {k1[1], k1[2]} = {k2[1], k2[2]}) => k1 = k2
    /\ \A key \in DOMAIN cache : cache[key] \in 4..current_id
    /\ Expanded => 2 * current_id = ((2 ^ depth) + 1) * ((2 ^ depth) + 2)

\* Depth 2 expanded: 15 nodes, 12 of them midpoints.
C20_Witness ==
    /\ Expanded
    /\ depth = 2
    /\ current_id = 15
    /\ Cardinality(DOMAIN cache) = 12

\* C14.  After any sequence of add_connection, remove_connection, Triangle,
\* create_new_node and subdivide calls, failed ones included, adjacency is
\* symmetric and irreflexive.
C14_SymmetricIrreflexive ==
    \A a \in Nodes :
        /\ a \notin connections[a]
        /\ \A b \in connections[a] : b \in Nodes /\ a \in connections[b]

\* A subdivide that failed at its third midpoint after creating two nodes:
\* the triangle's edge between node_a and node_c had been removed.
C14_Witness ==
    /\ err = "ValueError"
    /\ current_triangle # None
    /\ triangles = None
    /\ current_id = 5
    /\ Cardinality(DOMAIN cache) = 2
    /\ connections[4] # {}

\* C17.  The expansion loop completes before the first frame begins; a frame
\* that read the quit event still draws every triangle, after which the loop
\* is left without another frame and main ends; a frame that read no quit
\* event is followed by another frame, so the loop is left only after a quit.
C17_RenderLoop ==
    /\ [][ /\ pc # "exit"
           /\ pc' \in {"poll", "draw", "exit"}
                => /\ iter' = ((4 ^ depth') - 1) \div 3
                   /\ Len(items') = 4 ^ depth'
           /\ pc' = "expand" => (drawn' = <<>> /\ lastDrawn' = <<>>)
           /\ (pc = "draw" /\ done)
                => \/ pc' = "draw" /\ k < n /\ k' = k + 1 /\ done'
                   \/ pc' = "poll" /\ k = n /\ lastDrawn' = atStart /\ done'
           /\ (pc = "poll" /\ done) => pc' = "exit"
           /\ pc' = "exit"
                => pc = "poll" /\ done /\ Len(lastDrawn) = 4 ^ depth
           /\ (pc = "poll" /\ ~done) => pc' = "draw"
         ]_vars
    /\ (pc = "draw" /\ done) ~> (pc = "exit")

\* main ended after a frame that read the quit event drew all four triangles
\* of depth 1.
C17_Witness ==
    /\ pc = "exit"
    /\ done
    /\ depth = 1
    /\ k = n
    /\ drawn = atStart
    /\ lastDrawn = drawn
    /\ Len(drawn) = 4

====
